---- MODULE Spec2Model ----
(***************************************************************************)
(* The pairing engine of the coffee roulette tool (src/pairings.py):       *)
(* get_all_possible_pairings, generate_pairings_for_even_group,            *)
(* score_solution, get_historical_pairs and find_best_pairings.            *)
(*                                                                         *)
(* Data representation.                                                    *)
(*   - a person's name is a natural number (names are only compared for    *)
(*     equality and, in sorted(), for order);                              *)
(*   - a Python list or tuple is a sequence, a dict with fixed string keys *)
(*     is a record whose DOMAIN holds the keys that are present;           *)
(*   - data['people'] is a function from names to stats records;           *)
(*   - data['pairings'] is a dict keyed by week: a sequence of             *)
(*     <<week, week_data>> items in insertion order, the weeks distinct;   *)
(*   - a week string 'YYYY-WW' (strftime('%Y-%U'), src/coffee.py:18) is    *)
(*     the tuple <<YYYY, WW>>: both fields have a fixed width, so the      *)
(*     order of the strings is the lexicographic order of the tuples and   *)
(*     int(week.split('-')[1]) is the second component;                    *)
(*   - a score is a Python number, an int or a float: see "Numbers".       *)
(***************************************************************************)
EXTENDS Integers, Sequences, FiniteSets, TLC

VARIABLES
    pc,                 \* position of the running call
    people,             \* get_all_possible_pairings: argument
    solutions,          \* get_all_possible_pairings: returned list
    pairs,              \* score_solution: argument
    left_out,           \* score_solution: argument
    data,               \* score_solution / get_historical_pairs / find_best_pairings: argument
    target_week,        \* score_solution / find_best_pairings: argument
    weights,            \* score_solution: argument
    historical_pairs,   \* score_solution: local; get_historical_pairs: returned dict
    idx,                \* score_solution: number of pairs already scored,
                        \* find_best_pairings: number of solutions already scored
    score,              \* score_solution: local
    breakdown,          \* score_solution: local
    active_people,      \* find_best_pairings: argument
    manual_pairs,       \* find_best_pairings: argument
    top_n,              \* find_best_pairings: argument
    available_people,   \* find_best_pairings: local
    all_solutions,      \* find_best_pairings: local
    scored_solutions,   \* find_best_pairings: local
    ret,                \* returned value of score_solution / find_best_pairings
    calls               \* find_best_pairings: how often it called the enumerator and the scorer

vars == <<pc, people, solutions, pairs, left_out, data, target_week, weights,
          historical_pairs, idx, score, breakdown, active_people, manual_pairs,
          top_n, available_people, all_solutions, scored_solutions, ret, calls>>

enumVars == <<people, solutions>>
rankVars == <<active_people, manual_pairs, top_n, available_people,
              all_solutions, scored_solutions, calls>>

\* value of a variable that the running call does not use
None == "None"

(***************************************************************************)
(* Bounds of the model.                                                    *)
(***************************************************************************)
\* largest list handed to get_all_possible_pairings
MaxPeople == 6

(***************************************************************************)
(* Python list helpers.                                                    *)
(***************************************************************************)
\* (mutation of RemoveAt: the slice keeps the element, s[:i+1] + s[i+1:])
RemoveAt_keeps(s, i) == SubSeq(s, 1, i) \o SubSeq(s, i + 1, Len(s))

\* s[:i] + s[i+1:] for the 1-based position i
RemoveAt(s, i) == SubSeq(s, 1, i - 1) \o SubSeq(s, i + 1, Len(s))

\* the concatenation of a list of lists, in order
RECURSIVE Concat(_)
Concat(ss) ==
    IF ss = <<>> THEN <<>> ELSE Head(ss) \o Concat(Tail(ss))

\* the set of elements of a list
Range(s) == {s[k] : k \in DOMAIN s}

\* lists without repetition over the set S, of length at most n
RECURSIVE DistinctSeqs(_, _)
DistinctSeqs(S, n) ==
    IF n = 0 THEN {<<>>}
    ELSE LET shorter == DistinctSeqs(S, n - 1)
             longest == {t \in shorter : Len(t) = n - 1}
         IN  shorter \cup {Append(t, x) : <<t, x>> \in
                              {tx \in longest \X S : tx[2] \notin Range(tx[1])}}

(***************************************************************************)
(* The Enumerator: src/pairings.py, lines 9-76.                            *)
(***************************************************************************)
\* generate_pairings_for_even_group(people): the list of pairings, each a
\* list of pairs <<first, partner>>
RECURSIVE generate_pairings_for_even_group(_)
generate_pairings_for_even_group(ps) ==
    IF Len(ps) = 0 THEN << <<>> >>
    ELSE IF Len(ps) = 2 THEN << << <<ps[1], ps[2]>> >> >>
    ELSE LET first_person == ps[1]
             remaining == Tail(ps)
             \* one pass of the loop over enumerate(remaining)
             forPartner(k) ==
                 LET current_pair == <<first_person, remaining[k]>>
                     rest == RemoveAt(remaining, k)
                     sub_pairings == generate_pairings_for_even_group(rest)
                 IN  [j \in 1..Len(sub_pairings) |->
                          <<current_pair>> \o sub_pairings[j]]
         IN  Concat([k \in 1..Len(remaining) |-> forPartner(k)])

\* (mutation of get_all_possible_pairings: the parity test of line 31 is
\* dropped, so a left-out person is tried for every length above 3)
get_all_possible_pairings_noparity(ps) ==
    IF Len(ps) < 2 THEN <<>>
    ELSE IF Len(ps) = 2 THEN << << << <<ps[1], ps[2]>> >>, <<>> >> >>
    ELSE IF Len(ps) = 3 THEN
        << << << <<ps[2], ps[3]>> >>, <<ps[1]>> >>,
           << << <<ps[1], ps[3]>> >>, <<ps[2]>> >>,
           << << <<ps[1], ps[2]>> >>, <<ps[3]>> >> >>
    ELSE
        LET forLeftOut(k) ==
                LET pairings == generate_pairings_for_even_group(RemoveAt(ps, k))
                IN  [j \in 1..Len(pairings) |-> <<pairings[j], <<ps[k]>> >>]
        IN  Concat([k \in 1..Len(ps) |-> forLeftOut(k)])

\* (mutation of get_all_possible_pairings: the loop of line 32 starts at the
\* second person, so the first is never left out)
get_all_possible_pairings_skipfirst(ps) ==
    IF Len(ps) < 2 THEN <<>>
    ELSE IF Len(ps) = 2 THEN << << << <<ps[1], ps[2]>> >>, <<>> >> >>
    ELSE IF Len(ps) = 3 THEN
        << << << <<ps[2], ps[3]>> >>, <<ps[1]>> >>,
           << << <<ps[1], ps[3]>> >>, <<ps[2]>> >>,
           << << <<ps[1], ps[2]>> >>, <<ps[3]>> >> >>
    ELSE IF Len(ps) % 2 = 1 THEN
        LET forLeftOut(k) ==
                LET pairings == generate_pairings_for_even_group(RemoveAt(ps, k))
                IN  [j \in 1..Len(pairings) |-> <<pairings[j], <<ps[k]>> >>]
        IN  Concat([k \in 1..(Len(ps) - 1) |-> forLeftOut(k + 1)])
    ELSE
        LET pairings == generate_pairings_for_even_group(ps)
        IN  [j \in 1..Len(pairings) |-> <<pairings[j], <<>> >>]

\* get_all_possible_pairings(people): the list of solutions <<pairs, left_out>>
get_all_possible_pairings(ps) ==
    IF Len(ps) < 2 THEN <<>>
    ELSE IF Len(ps) = 2 THEN << << << <<ps[1], ps[2]>> >>, <<>> >> >>
    ELSE IF Len(ps) = 3 THEN
        << << << <<ps[2], ps[3]>> >>, <<ps[1]>> >>,
           << << <<ps[1], ps[3]>> >>, <<ps[2]>> >>,
           << << <<ps[1], ps[2]>> >>, <<ps[3]>> >> >>
    ELSE IF Len(ps) % 2 = 1 THEN
        LET forLeftOut(k) ==
                LET remaining_people == RemoveAt(ps, k)
                    pairings == generate_pairings_for_even_group(remaining_people)
                IN  [j \in 1..Len(pairings) |-> <<pairings[j], <<ps[k]>> >>]
        IN  Concat([k \in 1..Len(ps) |-> forLeftOut(k)])
    ELSE
        LET pairings == generate_pairings_for_even_group(ps)
        IN  [j \in 1..Len(pairings) |-> <<pairings[j], <<>> >>]

(***************************************************************************)
(* A call of get_all_possible_pairings on a list of distinct names (the    *)
(* callers pass the keys of a dict, src/coffee.py:57).                     *)
(***************************************************************************)
EnumNames == 1..MaxPeople

InitEnum ==
    /\ pc = "enumerate"
    /\ people \in DistinctSeqs(EnumNames, MaxPeople)
    /\ solutions = None
    /\ pairs = None /\ left_out = None /\ data = None /\ target_week = None
    /\ weights = None /\ historical_pairs = None /\ idx = None /\ score = None
    /\ breakdown = None /\ active_people = None /\ manual_pairs = None
    /\ top_n = None /\ available_people = None /\ all_solutions = None
    /\ scored_solutions = None /\ ret = None /\ calls = None

Enumerate ==
    /\ pc = "enumerate"
    /\ solutions' = get_all_possible_pairings(people)
    /\ pc' = "done"
    /\ UNCHANGED <<people, pairs, left_out, data, target_week, weights,
                   historical_pairs, idx, score, breakdown, ret>>
    /\ UNCHANGED rankVars

NextEnum == Enumerate

SpecEnum == InitEnum /\ [][NextEnum]_vars

(***************************************************************************)
(* The History Index: src/pairings.py, lines 151-173.                      *)
(***************************************************************************)
\* tuple(sorted(pair)) for a pair of two names
SortedPair(pair) ==
    IF pair[2] < pair[1] THEN <<pair[2], pair[1]>> ELSE <<pair[1], pair[2]>>

\* all_pairs of one week: the lists under 'pairs', 'manual_pairs' and
\* 'auto_pairs', in this order, each only if the key is present
AllPairs(week_data) ==
    (IF "pairs" \in DOMAIN week_data THEN week_data["pairs"] ELSE <<>>)
    \o (IF "manual_pairs" \in DOMAIN week_data THEN week_data["manual_pairs"] ELSE <<>>)
    \o (IF "auto_pairs" \in DOMAIN week_data THEN week_data["auto_pairs"] ELSE <<>>)

\* the items of data.get('pairings', {}), in the dict's order
PairingItems(d) == IF "pairings" \in DOMAIN d THEN d["pairings"] ELSE <<>>

\* the appends of line 171 in the order they happen, each <<pair_key, week>>
IndexAppends(d) ==
    LET items == PairingItems(d)
        forWeek(k) ==
            LET week == items[k][1]
                valid == SelectSeq(AllPairs(items[k][2]), LAMBDA pair : Len(pair) = 2)
            IN  [j \in 1..Len(valid) |-> <<SortedPair(valid[j]), week>>]
    IN  Concat([k \in 1..Len(items) |-> forWeek(k)])

\* (mutation of get_historical_pairs: the 'auto_pairs' key of line 165 is not read)
get_historical_pairs_noauto(d) ==
    LET stripped(wd) == [f \in DOMAIN wd \ {"auto_pairs"} |-> wd[f]]
        items == PairingItems(d)
        d2 == [pairings |-> [k \in 1..Len(items) |-> <<items[k][1], stripped(items[k][2])>>]]
        appends == IndexAppends(d2)
    IN  [key \in {appends[k][1] : k \in DOMAIN appends} |->
            LET mine == SelectSeq(appends, LAMBDA a : a[1] = key)
            IN  [j \in 1..Len(mine) |-> mine[j][2]]]

\* get_historical_pairs(data): the dict from sorted pair to its list of weeks
get_historical_pairs(d) ==
    LET appends == IndexAppends(d)
    IN  [key \in {appends[k][1] : k \in DOMAIN appends} |->
            LET mine == SelectSeq(appends, LAMBDA a : a[1] = key)
            IN  [j \in 1..Len(mine) |-> mine[j][2]]]

(***************************************************************************)
(* A call of get_historical_pairs.  A week's record holds any of the three *)
(* pair lists; an entry of a list is a pair in either order or an entry of *)
(* another length.                                                         *)
(***************************************************************************)
\* number of weeks a history of the index model may hold
MaxIndexWeeks == 2

IndexWeeks == {<<2025, w>> : w \in 1..MaxIndexWeeks}

PairFields == {"pairs", "manual_pairs", "auto_pairs"}

IndexFieldValues ==
    { << <<1, 2>> >>,
      << <<2, 1>>, <<1, 2, 3>>, <<3, 1>>, <<2>> >> }

IndexWeekData ==
    UNION {[present -> IndexFieldValues] : present \in SUBSET PairFields}

\* a dict week -> week_data as its item list: the weeks in insertion order o,
\* the k-th with the record wds[k]
ItemList(o, wds) == [k \in 1..Len(o) |-> <<o[k], wds[k]>>]

InitHist ==
    /\ pc = "index"
    /\ \/ data = [people |-> <<>>]
       \/ \E o \in DistinctSeqs(IndexWeeks, MaxIndexWeeks) :
              \E wds \in [1..Len(o) -> IndexWeekData] :
                  data = [people |-> <<>>, pairings |-> ItemList(o, wds)]
    /\ historical_pairs = None
    /\ people = None /\ solutions = None
    /\ pairs = None /\ left_out = None /\ target_week = None
    /\ weights = None /\ idx = None /\ score = None
    /\ breakdown = None /\ active_people = None /\ manual_pairs = None
    /\ top_n = None /\ available_people = None /\ all_solutions = None
    /\ scored_solutions = None /\ ret = None /\ calls = None

BuildIndex ==
    /\ pc = "index"
    /\ historical_pairs' = get_historical_pairs(data)
    /\ pc' = "done"
    /\ UNCHANGED <<people, solutions, pairs, left_out, data, target_week,
                   weights, idx, score, breakdown, ret>>
    /\ UNCHANGED rankVars

NextHist == BuildIndex

SpecHist == InitHist /\ [][NextHist]_vars

(***************************************************************************)
(* Numbers.  A score starts as the int 0 and stays an int while only int   *)
(* weights are added; the fairness part (lines 140-147) is computed in     *)
(* Python floats, IEEE 754 binary64 with round-to-nearest, ties-to-even.   *)
(* A number is [neg, mant, exp]: the value (-1)^neg * mant * 2^exp, mant   *)
(* an odd natural number (<<>> for 0).  A natural number is the list of    *)
(* its digits to the base 2^LimbBits, lowest first and the highest not 0,  *)
(* so that no intermediate value needs more than 31 bits.  An int and the  *)
(* float equal to it (10 == 10.0 in Python) are the same value here, and   *)
(* so are 0.0 and -0.0; exponents stay far from the ends of the float      *)
(* range.                                                                  *)
(***************************************************************************)
\* bits of the significand of a Python float
MantissaBits == 53

\* bits of one digit of a natural number
LimbBits == 15

LimbBase == 2^LimbBits

Abs(n) == IF n < 0 THEN -n ELSE n
Min(a, b) == IF a < b THEN a ELSE b
Max(a, b) == IF a < b THEN b ELSE a

\* the digits of a natural number
RECURSIVE LimbsOfNat(_)
LimbsOfNat(n) ==
    IF n = 0 THEN <<>> ELSE <<n % LimbBase>> \o LimbsOfNat(n \div LimbBase)

\* k digits 0
Zeros(k) == [i \in 1..k |-> 0]

\* without the digits 0 at the high end
TrimHigh(a) ==
    LET nonzero == {i \in DOMAIN a : a[i] # 0}
    IN  IF nonzero = {} THEN <<>>
        ELSE SubSeq(a, 1, CHOOSE i \in nonzero : \A j \in nonzero : j <= i)

\* a + b + carry, from digit i on
RECURSIVE AddLimbs(_, _, _, _)
AddLimbs(a, b, i, carry) ==
    IF i > Len(a) /\ i > Len(b) THEN (IF carry = 0 THEN <<>> ELSE <<carry>>)
    ELSE LET x == IF i <= Len(a) THEN a[i] ELSE 0
             y == IF i <= Len(b) THEN b[i] ELSE 0
             s == x + y + carry
         IN  <<s % LimbBase>> \o AddLimbs(a, b, i + 1, s \div LimbBase)

\* a - b - borrow for a >= b, from digit i on
RECURSIVE SubLimbs(_, _, _, _)
SubLimbs(a, b, i, borrow) ==
    IF i > Len(a) THEN <<>>
    ELSE LET y == IF i <= Len(b) THEN b[i] ELSE 0
             s == a[i] - y - borrow
         IN  <<IF s < 0 THEN s + LimbBase ELSE s>>
                 \o SubLimbs(a, b, i + 1, IF s < 0 THEN 1 ELSE 0)

\* a * m + carry for one digit m, from digit i on
RECURSIVE MulLimb(_, _, _, _)
MulLimb(a, m, i, carry) ==
    IF i > Len(a) THEN (IF carry = 0 THEN <<>> ELSE <<carry>>)
    ELSE LET p == a[i] * m + carry
         IN  <<p % LimbBase>> \o MulLimb(a, m, i + 1, p \div LimbBase)

\* a * b
RECURSIVE MulLimbs(_, _)
MulLimbs(a, b) ==
    IF b = <<>> THEN <<>>
    ELSE AddLimbs(MulLimb(a, Head(b), 1, 0), <<0>> \o MulLimbs(a, Tail(b)), 1, 0)

\* quotient and remainder of the digits i, ..., 1 of a behind the remainder
\* rem, divided by d < LimbBase
RECURSIVE DivLimb(_, _, _, _)
DivLimb(a, d, i, rem) ==
    IF i = 0 THEN [q |-> <<>>, rem |-> rem]
    ELSE LET cur == rem * LimbBase + a[i]
             low == DivLimb(a, d, i - 1, cur % d)
         IN  [q |-> Append(low.q, cur \div d), rem |-> low.rem]

\* a * 2^k
ShiftLeft(a, k) ==
    LET s == k % LimbBits
    IN  Zeros(k \div LimbBits)
            \o TrimHigh([i \in 1..(Len(a) + 1) |->
                   (IF i <= Len(a) THEN (a[i] * 2^s) % LimbBase ELSE 0)
                       + (IF i > 1 THEN a[i - 1] \div 2^(LimbBits - s) ELSE 0)])

\* a \div 2^k
ShiftRight(a, k) ==
    LET s == k % LimbBits
        r == SubSeq(a, k \div LimbBits + 1, Len(a))
    IN  TrimHigh([i \in 1..Len(r) |->
            r[i] \div 2^s
                + (IF i < Len(r) THEN (r[i + 1] % 2^s) * 2^(LimbBits - s) ELSE 0)])

\* a % 2^k = 0
LowBitsZero(a, k) ==
    /\ \A i \in 1..Min(k \div LimbBits, Len(a)) : a[i] = 0
    /\ k \div LimbBits < Len(a) => a[k \div LimbBits + 1] % 2^(k % LimbBits) = 0

\* number of bits of a number that is not 0
BitLength(a) ==
    LimbBits * (Len(a) - 1)
        + (CHOOSE n \in 1..LimbBits : 2^(n - 1) <= a[Len(a)] /\ a[Len(a)] < 2^n)

\* number of zero bits at the low end of a number that is not 0
TrailingZeros(a) == CHOOSE k \in 0..(LimbBits * Len(a)) :
                        LowBitsZero(a, k) /\ ~LowBitsZero(a, k + 1)

\* a < b
LimbsLess(a, b) ==
    \/ Len(a) < Len(b)
    \/ /\ Len(a) = Len(b)
       /\ \E i \in DOMAIN a : a[i] < b[i] /\ \A j \in (i + 1)..Len(a) : a[j] = b[j]

FloatZero == [neg |-> FALSE, mant |-> <<>>, exp |-> 0]

\* the number (-1)^neg * a * 2^exp with an odd significand
Canonical(neg, a, exp) ==
    IF a = <<>> THEN FloatZero
    ELSE LET z == TrailingZeros(a)
         IN  [neg |-> neg, mant |-> ShiftRight(a, z), exp |-> exp + z]

\* the float nearest to (-1)^neg * (limbs + f) * 2^exp, where 0 < f < 1 if
\* sticky and f = 0 if not: round to nearest, ties to even
RoundToFloat(neg, limbs, exp, sticky) ==
    LET a == TrimHigh(limbs)
    IN  IF a = <<>> \/ BitLength(a) <= MantissaBits THEN Canonical(neg, a, exp)
        ELSE LET drop == BitLength(a) - MantissaBits
                 kept == ShiftRight(a, drop)
                 half == ShiftRight(a, drop - 1)[1] % 2 = 1
                 rest == sticky \/ ~LowBitsZero(a, drop - 1)
                 up == half /\ (rest \/ kept[1] % 2 = 1)
             IN  Canonical(neg, IF up THEN AddLimbs(kept, <<1>>, 1, 0) ELSE kept,
                           exp + drop)

\* float(n) of an int
FloatOfInt(n) == Canonical(n < 0, LimbsOfNat(Abs(n)), 0)

FloatNeg(x) == IF x.mant = <<>> THEN x ELSE [x EXCEPT !.neg = ~@]

\* x + y
FloatAdd(x, y) ==
    IF x.mant = <<>> THEN y
    ELSE IF y.mant = <<>> THEN x
    ELSE LET e == Min(x.exp, y.exp)
             a == ShiftLeft(x.mant, x.exp - e)
             b == ShiftLeft(y.mant, y.exp - e)
         IN  IF x.neg = y.neg THEN RoundToFloat(x.neg, AddLimbs(a, b, 1, 0), e, FALSE)
             ELSE IF LimbsLess(a, b)
                  THEN RoundToFloat(y.neg, SubLimbs(b, a, 1, 0), e, FALSE)
                  ELSE RoundToFloat(x.neg, SubLimbs(a, b, 1, 0), e, FALSE)

\* x - y
FloatSub(x, y) == FloatAdd(x, FloatNeg(y))

\* x * y
FloatMul(x, y) ==
    RoundToFloat(x.neg # y.neg, MulLimbs(x.mant, y.mant), x.exp + y.exp, FALSE)

\* digits behind the point that n / d is computed to before it is rounded:
\* enough for MantissaBits + 2 bits of a quotient above 1 / LimbBase
QuotientLimbs == (MantissaBits + 2) \div LimbBits + 2

\* n / d of two ints, 0 < |d| < LimbBase: the float nearest to the quotient
FloatDiv(n, d) ==
    LET dividend == Zeros(QuotientLimbs) \o LimbsOfNat(Abs(n))
        f == DivLimb(dividend, Abs(d), Len(dividend), 0)
    IN  RoundToFloat((n < 0) # (d < 0), f.q, -(LimbBits * QuotientLimbs), f.rem # 0)

\* |x| < |y| for two numbers that are not 0: by the place of the highest
\* bit, then digit by digit
MagnitudeLess(x, y) ==
    \/ x.exp + BitLength(x.mant) < y.exp + BitLength(y.mant)
    \/ /\ x.exp + BitLength(x.mant) = y.exp + BitLength(y.mant)
       /\ LimbsLess(ShiftLeft(x.mant, x.exp - Min(x.exp, y.exp)),
                    ShiftLeft(y.mant, y.exp - Min(x.exp, y.exp)))

\* x < y
FloatLess(x, y) ==
    /\ x # y
    /\ IF x.mant = <<>> THEN ~y.neg
       ELSE IF y.mant = <<>> THEN x.neg
       ELSE IF x.neg # y.neg THEN x.neg
       ELSE IF x.neg THEN MagnitudeLess(y, x)
       ELSE MagnitudeLess(x, y)

(***************************************************************************)
(* The Scorer: src/pairings.py, lines 78-149.                              *)
(***************************************************************************)
\* the weights argument left at its default, None; no dict of weights has
\* the key of this record
NoWeights == [is_none |-> TRUE]

\* the weights argument {}, a dict without any key
EmptyWeights == [k \in {} |-> 0]

\* the dict of lines 93-98
DefaultWeights ==
    [first_time_meeting |-> 10, recent_pairing_penalty |-> -5,
     old_pairing_penalty |-> -1, fairness_bonus |-> 3]

\* lines 92-98: weights after the test `weights is None`
EffectiveWeights(w) == IF w = NoWeights THEN DefaultWeights ELSE w

\* lines 100-107: score and breakdown before the loops
InitialScore(ps) ==
    [score |-> FloatOfInt(0),
     breakdown |-> [first_time_meetings |-> 0, recent_pairings |-> 0,
                    old_pairings |-> 0, fairness_score |-> FloatOfInt(0),
                    total_pairs |-> Len(ps)]]

\* the order of two week strings 'YYYY-WW'
WeekLess(a, b) == a[1] < b[1] \/ (a[1] = b[1] /\ a[2] < b[2])

\* max(last_weeks) of a non-empty list of week strings
MaxWeekOf(last_weeks) ==
    CHOOSE w \in Range(last_weeks) : \A v \in Range(last_weeks) : ~WeekLess(w, v)

\* int(week.split('-')[1])
WeekNum(week) == week[2]

\* lines 118-119, 131-132, 134-135: score += weights[key] and the counter
\* of the breakdown; weights[key] raises KeyError for a dict without the key
AddWeight(acc, w, key, counter) ==
    IF key \notin DOMAIN w THEN [raised |-> TRUE, error |-> "KeyError", acc |-> acc]
    ELSE [raised |-> FALSE, error |-> "",
          acc |-> [score |-> FloatAdd(acc.score, FloatOfInt(w[key])),
                   breakdown |-> [acc.breakdown EXCEPT ![counter] = @ + 1]]]

\* (mutation of score_pair: the test of line 130 reads weeks_ago < 2)
score_pair_strict(acc, pair, hp, tw, w) ==
    LET pair_key == SortedPair(pair)
    IN  IF pair_key \notin DOMAIN hp THEN
            AddWeight(acc, w, "first_time_meeting", "first_time_meetings")
        ELSE
            LET weeks_ago == WeekNum(tw) - WeekNum(MaxWeekOf(hp[pair_key]))
            IN  IF weeks_ago < 2 THEN
                    AddWeight(acc, w, "recent_pairing_penalty", "recent_pairings")
                ELSE IF weeks_ago <= 4 THEN
                    AddWeight(acc, w, "old_pairing_penalty", "old_pairings")
                ELSE [raised |-> FALSE, error |-> "", acc |-> acc]

\* lines 114-135: one pass of the loop over pairs, on the accumulated
\* [score, breakdown]; [raised, error, acc]
score_pair(acc, pair, hp, tw, w) ==
    LET pair_key == SortedPair(pair)
    IN  IF pair_key \notin DOMAIN hp THEN
            AddWeight(acc, w, "first_time_meeting", "first_time_meetings")
        ELSE
            LET last_weeks == hp[pair_key]
                most_recent == MaxWeekOf(last_weeks)
                current_week_num == WeekNum(tw)
                recent_week_num == WeekNum(most_recent)
                weeks_ago == current_week_num - recent_week_num
            IN  IF weeks_ago <= 2 THEN
                    AddWeight(acc, w, "recent_pairing_penalty", "recent_pairings")
                ELSE IF weeks_ago <= 4 THEN
                    AddWeight(acc, w, "old_pairing_penalty", "old_pairings")
                ELSE [raised |-> FALSE, error |-> "", acc |-> acc]

\* p.get('times_left_out', 0)
TimesLeftOut(stats) ==
    IF "times_left_out" \in DOMAIN stats THEN stats["times_left_out"] ELSE 0

\* sum(p.get('times_left_out', 0) for p in people_stats.values()), over the keys S
RECURSIVE SumLeftOut(_, _)
SumLeftOut(people_stats, S) ==
    IF S = {} THEN 0
    ELSE LET x == CHOOSE y \in S : TRUE
         IN  TimesLeftOut(people_stats[x]) + SumLeftOut(people_stats, S \ {x})

\* lines 142-147: the loop over left_out, from position k on
RECURSIVE FairnessLoop(_, _, _, _, _, _)
FairnessLoop(acc, lo, k, people_stats, avg_left_out, w) ==
    IF k > Len(lo) THEN acc
    ELSE
        LET person == lo[k]
            person_left_out_count ==
                IF person \in DOMAIN people_stats
                THEN TimesLeftOut(people_stats[person]) ELSE 0
            fairness_diff == FloatSub(avg_left_out, FloatOfInt(person_left_out_count))
            fairness_score == FloatMul(fairness_diff, FloatOfInt(w["fairness_bonus"]))
        IN  FairnessLoop(
                [score |-> FloatAdd(acc.score, fairness_score),
                 breakdown |-> [acc.breakdown EXCEPT
                                   !.fairness_score = FloatAdd(@, fairness_score)]],
                lo, k + 1, people_stats, avg_left_out, w)

\* (mutation of score_fairness: the average of line 140 is taken over the
\* active people only)
score_fairness_active(acc, lo, d, w) ==
    IF lo = <<>> THEN [raised |-> FALSE, error |-> "", acc |-> acc]
    ELSE
        LET people_stats == d["people"]
            active == {p \in DOMAIN people_stats : people_stats[p]["active"]}
            n == Cardinality(active)
        IN  IF n = 0 THEN [raised |-> TRUE, error |-> "ZeroDivisionError", acc |-> acc]
            ELSE IF "fairness_bonus" \notin DOMAIN w
            THEN [raised |-> TRUE, error |-> "KeyError", acc |-> acc]
            ELSE [raised |-> FALSE, error |-> "",
                  acc |-> FairnessLoop(acc, lo, 1, people_stats,
                              FloatDiv(SumLeftOut(people_stats, active), n), w)]

\* lines 138-147: the fairness block; the division of line 140 raises
\* ZeroDivisionError when people_stats is empty, weights['fairness_bonus'] of
\* line 145 raises KeyError in the first pass for a dict without the key
score_fairness(acc, lo, d, w) ==
    IF lo = <<>> THEN [raised |-> FALSE, error |-> "", acc |-> acc]
    ELSE
        LET people_stats == d["people"]
            n == Cardinality(DOMAIN people_stats)
        IN  IF n = 0 THEN [raised |-> TRUE, error |-> "ZeroDivisionError", acc |-> acc]
            ELSE IF "fairness_bonus" \notin DOMAIN w
            THEN [raised |-> TRUE, error |-> "KeyError", acc |-> acc]
            ELSE [raised |-> FALSE, error |-> "",
                  acc |-> FairnessLoop(acc, lo, 1, people_stats,
                              FloatDiv(SumLeftOut(people_stats, DOMAIN people_stats), n), w)]

\* lines 113-135: the loop over pairs, from position k on; it ends with the
\* first pass that raises
RECURSIVE PairLoop(_, _, _, _, _, _)
PairLoop(acc, ps, k, hp, tw, w) ==
    IF k > Len(ps) THEN [raised |-> FALSE, error |-> "", acc |-> acc]
    ELSE LET r == score_pair(acc, ps[k], hp, tw, w)
         IN  IF r.raised THEN r ELSE PairLoop(r.acc, ps, k + 1, hp, tw, w)

\* score_solution(pairs, left_out, data, target_week, weights): the returned
\* tuple as [raised |-> FALSE, score, breakdown], or [raised |-> TRUE, error]
\* when the call ends in an exception
score_solution(ps, lo, d, tw, wArg) ==
    LET w == EffectiveWeights(wArg)
        hp == get_historical_pairs(d)
        afterPairs == PairLoop(InitialScore(ps), ps, 1, hp, tw, w)
        f == score_fairness(afterPairs.acc, lo, d, w)
    IN  IF afterPairs.raised THEN [raised |-> TRUE, error |-> afterPairs.error]
        ELSE IF f.raised THEN [raised |-> TRUE, error |-> f.error]
        ELSE [raised |-> FALSE, score |-> f.acc.score, breakdown |-> f.acc.breakdown]

(***************************************************************************)
(* A call of score_solution, statement by statement.                       *)
(***************************************************************************)
\* week numbers of the scorer model run from 1 to MaxWeek
MaxWeek == 7
\* number of weeks a history of the scorer model may hold
MaxHistory == 2

ScoreWeeks == {<<2025, wk>> : wk \in 1..MaxWeek} \cup {<<2024, MaxWeek>>}

ScoreTargets == {<<2025, 2>>, <<2025, MaxWeek>>}

ScoreWeekData == {[pairs |-> << <<1, 2>> >>], [auto_pairs |-> << <<4, 3>> >>]}

ScorePairLists ==
    { <<>>, << <<2, 1>> >>, << <<1, 3>>, <<3, 4>> >> }

ScoreLeftOuts == { <<>>, <<3>>, <<5, 3>> }

\* data['people']: nobody; the five people of test_pairing_algorithm
\* (lines 234-240); a roster with a record that has no 'times_left_out'
ScoreRosters ==
    { [p \in {} |-> 0],
      [p \in 1..5 |-> [active |-> TRUE,
                       times_left_out |-> <<1, 0, 2, 0, 1>>[p],
                       total_weeks_participated |-> <<5, 6, 4, 6, 5>>[p]]],
      [p \in 1..3 |-> IF p = 2 THEN [active |-> FALSE]
                      ELSE [active |-> TRUE, times_left_out |-> p]] }

ScoreWeights ==
    { NoWeights, EmptyWeights,
      [first_time_meeting |-> 7, recent_pairing_penalty |-> -3,
       old_pairing_penalty |-> -2, fairness_bonus |-> 2] }

\* the arguments of a call; the fairness block does not read the history,
\* so a call with somebody left out takes a history of at most one week
InitScore ==
    /\ pc = "score_begin"
    /\ pairs \in ScorePairLists
    /\ left_out \in ScoreLeftOuts
    /\ target_week \in ScoreTargets
    /\ weights \in ScoreWeights
    /\ \E roster \in ScoreRosters :
         \E o \in DistinctSeqs(ScoreWeeks, IF left_out = <<>> THEN MaxHistory ELSE 1) :
           \E wds \in [1..Len(o) -> ScoreWeekData] :
             data = [people |-> roster, pairings |-> ItemList(o, wds)]
    /\ historical_pairs = None /\ idx = None /\ score = None
    /\ breakdown = None /\ ret = None
    /\ people = None /\ solutions = None
    /\ active_people = None /\ manual_pairs = None
    /\ top_n = None /\ available_people = None /\ all_solutions = None
    /\ scored_solutions = None /\ calls = None

\* lines 92-110
ScoreBegin ==
    /\ pc = "score_begin"
    /\ weights' = EffectiveWeights(weights)
    /\ score' = InitialScore(pairs).score
    /\ breakdown' = InitialScore(pairs).breakdown
    /\ historical_pairs' = get_historical_pairs(data)
    /\ idx' = 0
    /\ pc' = "score_pairs"
    /\ UNCHANGED <<pairs, left_out, data, target_week, ret>>
    /\ UNCHANGED enumVars
    /\ UNCHANGED rankVars

\* lines 113-135: one pass of the loop over pairs; a KeyError ends the call
ScorePair ==
    /\ pc = "score_pairs"
    /\ idx < Len(pairs)
    /\ \E r \in {score_pair([score |-> score, breakdown |-> breakdown],
                           pairs[idx + 1], historical_pairs, target_week, weights)} :
           IF r.raised
           THEN /\ pc' = "raised"
                /\ ret' = [raised |-> TRUE, error |-> r.error]
                /\ UNCHANGED <<score, breakdown, idx>>
           ELSE /\ score' = r.acc.score
                /\ breakdown' = r.acc.breakdown
                /\ idx' = idx + 1
                /\ UNCHANGED <<pc, ret>>
    /\ UNCHANGED <<pairs, left_out, data, target_week, weights, historical_pairs>>
    /\ UNCHANGED enumVars
    /\ UNCHANGED rankVars

\* lines 138-147, after the last pair
ScoreFairness ==
    /\ pc = "score_pairs"
    /\ idx = Len(pairs)
    /\ \E f \in {score_fairness([score |-> score, breakdown |-> breakdown],
                                  left_out, data, weights)} :
           /\ score' = f.acc.score
           /\ breakdown' = f.acc.breakdown
           /\ pc' = IF f.raised THEN "raised" ELSE "score_return"
           /\ ret' = IF f.raised THEN [raised |-> TRUE, error |-> f.error] ELSE ret
    /\ UNCHANGED <<pairs, left_out, data, target_week, weights,
                   historical_pairs, idx>>
    /\ UNCHANGED enumVars
    /\ UNCHANGED rankVars

\* line 149
ScoreReturn ==
    /\ pc = "score_return"
    /\ ret' = [raised |-> FALSE, score |-> score, breakdown |-> breakdown]
    /\ pc' = "done"
    /\ UNCHANGED <<pairs, left_out, data, target_week, weights,
                   historical_pairs, idx, score, breakdown>>
    /\ UNCHANGED enumVars
    /\ UNCHANGED rankVars

NextScore == ScoreBegin \/ ScorePair \/ ScoreFairness \/ ScoreReturn

SpecScore == InitScore /\ [][NextScore]_vars

(***************************************************************************)
(* The Solution Ranker: src/pairings.py, lines 175-226.                    *)
(***************************************************************************)
\* lines 193-195: the set of everybody named in a manual pair
ManuallyPaired(manual) == UNION {Range(manual[k]) : k \in DOMAIN manual}

\* (mutation of AvailablePeople: only the first member of each manual pair
\* is taken out of the pool)
AvailablePeople_firstonly(active, manual) ==
    SelectSeq(active, LAMBDA p : p \notin {manual[k][1] : k \in DOMAIN manual})

\* line 197: the active people nobody paired by hand, in their order
AvailablePeople(active, manual) ==
    SelectSeq(active, LAMBDA p : p \notin ManuallyPaired(manual))

\* (mutation of RankBranch: the test of line 203 for a single person is missing)
RankBranch_nosingle(available) ==
    IF Len(available) = 0 THEN "all_manual" ELSE "auto"

\* the tests of lines 203 and 207, in their order
RankBranch(available) ==
    IF Len(available) < 2 /\ Len(available) > 0 THEN "only_one"
    ELSE IF Len(available) = 0 THEN "all_manual"
    ELSE "auto"

\* the place of a new entry in a list sorted by score, best first: behind
\* every entry that is not worse (list.sort is stable, also with reverse=True)
RECURSIVE InsertByScore(_, _)
InsertByScore(sorted, entry) ==
    IF sorted = <<>> THEN <<entry>>
    ELSE IF FloatLess(Head(sorted)[1], entry[1]) THEN <<entry>> \o sorted
    ELSE <<Head(sorted)>> \o InsertByScore(Tail(sorted), entry)

\* (mutation of SortByScore: reverse=True of line 225 is missing, the list
\* ends worst first)
RECURSIVE SortByScore_ascending(_)
SortByScore_ascending(entries) ==
    IF entries = <<>> THEN <<>>
    ELSE LET rest == SortByScore_ascending(SubSeq(entries, 1, Len(entries) - 1))
             last == entries[Len(entries)]
             before == SelectSeq(rest, LAMBDA e : ~FloatLess(last[1], e[1]))
             after == SelectSeq(rest, LAMBDA e : FloatLess(last[1], e[1]))
         IN  before \o <<last>> \o after

\* line 225: scored_solutions.sort(key=lambda x: x[0], reverse=True)
RECURSIVE SortByScore(_)
SortByScore(entries) ==
    IF entries = <<>> THEN <<>>
    ELSE InsertByScore(SortByScore(SubSeq(entries, 1, Len(entries) - 1)),
                       entries[Len(entries)])

\* line 226: s[:n]
SliceTo(s, n) ==
    IF n >= 0 THEN SubSeq(s, 1, Min(n, Len(s)))
    ELSE SubSeq(s, 1, Max(0, Len(s) + n))

\* lines 205 and 209: the one entry (score, pairs, left_out, breakdown) of
\* the returned list; the score is the int 0, the breakdown holds a note
OnlyOneResult(manual, available) ==
    << <<FloatOfInt(0), manual, available,
         [note |-> "Only 1 person available for auto-pairing"]>> >>

AllManualResult(manual) ==
    << <<FloatOfInt(0), manual, <<>>, [note |-> "All pairs are manual"]>> >>

(***************************************************************************)
(* A call of find_best_pairings, statement by statement.  The active       *)
(* people are names of the roster (get_active_people, src/coffee.py:57);   *)
(* manual_pairs is a list (None becomes [] at lines 189-190).              *)
(***************************************************************************)
\* largest number of active people handed to find_best_pairings
MaxActive == 5
\* largest top_n
MaxTopN == 3

\* the active people: 1..n in dict order, ascending or descending names
RankActiveLists ==
    UNION {{[k \in 1..n |-> k], [k \in 1..n |-> n + 1 - k]} : n \in 0..MaxActive}

\* the roster of n active people and one inactive (name 0): times_left_out
\* all 0, or 1, 0, 2, 0, 1 (test_pairing_algorithm) repeated, the inactive
\* person with 4
RankRosters(n) ==
    { [p \in 0..n |-> IF p = 0
                      THEN [active |-> FALSE, times_left_out |-> 4,
                            total_weeks_participated |-> 9]
                      ELSE [active |-> TRUE, times_left_out |-> 0,
                            total_weeks_participated |-> 5]],
      [p \in 0..n |-> IF p = 0
                      THEN [active |-> FALSE, times_left_out |-> 4,
                            total_weeks_participated |-> 9]
                      ELSE [active |-> TRUE,
                            times_left_out |-> <<1, 0, 2, 0>>[1 + ((p - 1) % 4)],
                            total_weeks_participated |-> 5]] }

RankManualPairs ==
    { <<>>, << <<1, 2>> >>, << <<5, 4>> >>, << <<2, 1>>, <<3, 4>> >> }

RankTarget == <<2025, 31>>

\* the two weeks of test_pairing_algorithm (lines 242-249) and an older one
RankWeekData ==
    { [pairs |-> << <<1, 2>>, <<3, 4>> >>, left_out |-> <<5>>],
      [pairs |-> << <<1, 3>>, <<2, 5>> >>, left_out |-> <<4>>],
      [manual_pairs |-> << <<1, 2>> >>, auto_pairs |-> << <<4, 5>> >>] }

RankWeeks == {<<2025, 27>>, <<2025, 29>>, <<2025, 30>>}

\* the history's weeks are in the order they were saved
Ascending(o) == \A k \in 1..(Len(o) - 1) : WeekLess(o[k], o[k + 1])

InitRank ==
    /\ pc = "rank_begin"
    /\ active_people \in RankActiveLists
    /\ manual_pairs \in RankManualPairs
    /\ top_n \in 0..MaxTopN
    /\ target_week = RankTarget
    /\ \E roster \in RankRosters(Len(active_people)) :
         \E o \in {q \in DistinctSeqs(RankWeeks, Cardinality(RankWeeks)) : Ascending(q)} :
           \E wds \in [1..Len(o) -> RankWeekData] :
             data = [people |-> roster, pairings |-> ItemList(o, wds)]
    /\ available_people = None /\ all_solutions = None
    /\ scored_solutions = None /\ ret = None
    /\ idx = None
    /\ calls = [enumerator |-> 0, scorer |-> 0]
    /\ people = None /\ solutions = None
    /\ pairs = None /\ left_out = None /\ weights = None
    /\ historical_pairs = None /\ score = None /\ breakdown = None

rankArgs == <<active_people, manual_pairs, top_n, data, target_week>>
rankOthers == <<people, solutions, pairs, left_out, weights, historical_pairs,
                score, breakdown>>

\* lines 189-201
RankBegin ==
    /\ pc = "rank_begin"
    /\ available_people' = AvailablePeople(active_people, manual_pairs)
    /\ pc' = "rank_branch"
    /\ UNCHANGED <<all_solutions, scored_solutions, ret, idx, calls>>
    /\ UNCHANGED rankArgs
    /\ UNCHANGED rankOthers

\* lines 203-205
RankOnlyOne ==
    /\ pc = "rank_branch"
    /\ RankBranch(available_people) = "only_one"
    /\ ret' = OnlyOneResult(manual_pairs, available_people)
    /\ pc' = "done"
    /\ UNCHANGED <<available_people, all_solutions, scored_solutions, idx, calls>>
    /\ UNCHANGED rankArgs
    /\ UNCHANGED rankOthers

\* lines 207-209
RankAllManual ==
    /\ pc = "rank_branch"
    /\ RankBranch(available_people) = "all_manual"
    /\ ret' = AllManualResult(manual_pairs)
    /\ pc' = "done"
    /\ UNCHANGED <<available_people, all_solutions, scored_solutions, idx, calls>>
    /\ UNCHANGED rankArgs
    /\ UNCHANGED rankOthers

\* lines 211-217
RankEnumerate ==
    /\ pc = "rank_branch"
    /\ RankBranch(available_people) = "auto"
    /\ all_solutions' = get_all_possible_pairings(available_people)
    /\ calls' = [calls EXCEPT !.enumerator = @ + 1]
    /\ scored_solutions' = <<>>
    /\ idx' = 0
    /\ pc' = "rank_score"
    /\ UNCHANGED <<available_people, ret>>
    /\ UNCHANGED rankArgs
    /\ UNCHANGED rankOthers

\* lines 218-222: one pass of the loop over all_solutions; an error of
\* score_solution ends the call
RankScore ==
    /\ pc = "rank_score"
    /\ idx < Len(all_solutions)
    /\ LET auto_pairs == all_solutions[idx + 1][1]
           lo == all_solutions[idx + 1][2]
           all_pairs == manual_pairs \o auto_pairs
       IN  \E r \in {score_solution(all_pairs, lo, data, target_week, NoWeights)} :
           IF r.raised
           THEN /\ pc' = "raised"
                /\ ret' = [raised |-> TRUE, error |-> r.error]
                /\ UNCHANGED scored_solutions
           ELSE /\ pc' = pc
                /\ ret' = ret
                /\ scored_solutions' =
                       Append(scored_solutions, <<r.score, all_pairs, lo, r.breakdown>>)
    /\ calls' = [calls EXCEPT !.scorer = @ + 1]
    /\ idx' = idx + 1
    /\ UNCHANGED <<available_people, all_solutions>>
    /\ UNCHANGED rankArgs
    /\ UNCHANGED rankOthers

\* lines 224-226
RankSort ==
    /\ pc = "rank_score"
    /\ idx = Len(all_solutions)
    /\ \E sorted \in {SortByScore(scored_solutions)} :
           /\ scored_solutions' = sorted
           /\ ret' = SliceTo(sorted, top_n)
    /\ pc' = "done"
    /\ UNCHANGED <<available_people, all_solutions, idx, calls>>
    /\ UNCHANGED rankArgs
    /\ UNCHANGED rankOthers

NextRank ==
    RankBegin \/ RankOnlyOne \/ RankAllManual \/ RankEnumerate \/ RankScore \/ RankSort

SpecRank == InitRank /\ [][NextRank]_vars

(***************************************************************************)
(* The module as a whole: one call of any of its functions.                *)
(***************************************************************************)
Init == InitEnum \/ InitHist \/ InitScore \/ InitRank

Next == NextEnum \/ NextHist \/ NextScore \/ NextRank

Spec == Init /\ [][Next]_vars

(***************************************************************************)
(* Properties of the Enumerator.                                           *)
(***************************************************************************)
\* (2k-1)!! for n = 2k-1: n * (n-2) * ... * 1
RECURSIVE DoubleFactorial(_)
DoubleFactorial(n) == IF n <= 1 THEN 1 ELSE n * DoubleFactorial(n - 2)

\* how often x occurs in the list s
Count(s, x) == Cardinality({k \in DOMAIN s : s[k] = x})

\* everybody named in a solution, pair by pair and then the left-out list
SolutionMembers(sol) == Concat(sol[1]) \o sol[2]

\* the pairs of a solution as a set of unordered pairs
PairSet(sol) == {{sol[1][k][1], sol[1][k][2]} : k \in DOMAIN sol[1]}

\* C1: every solution returned for a list of distinct people covers the list
\* exactly: each person of the input occurs exactly once among the pairs and
\* the left-out list, nobody else occurs, and no pair holds a person twice.
C1_Coverage ==
    pc = "done" =>
        \A k \in DOMAIN solutions :
            LET sol == solutions[k]
                members == SolutionMembers(sol)
            IN  /\ \A p \in Range(people) : Count(members, p) = 1
                /\ Range(members) \subseteq Range(people)
                /\ \A j \in DOMAIN sol[1] :
                       Len(sol[1][j]) = 2 /\ sol[1][j][1] # sol[1][j][2]

C1_Witness ==
    pc = "done" /\ Len(people) = MaxPeople /\ Len(solutions) > 1

\* C2: for 2k distinct people the Enumerator returns exactly (2k-1)!!
\* solutions, each with an empty left-out list, no two with the same set of
\* unordered pairs; for two people that is the one pair of both.
C2_EvenCount ==
    (pc = "done" /\ Len(people) >= 2 /\ Len(people) % 2 = 0) =>
        /\ Len(solutions) = DoubleFactorial(Len(people) - 1)
        /\ \A k \in DOMAIN solutions : solutions[k][2] = <<>>
        /\ \A k, j \in DOMAIN solutions :
               k # j => PairSet(solutions[k]) # PairSet(solutions[j])
        /\ Len(people) = 2 =>
               /\ Len(solutions[1][1]) = 1
               /\ PairSet(solutions[1]) = {{people[1], people[2]}}

C2_Witness ==
    pc = "done" /\ Len(people) = 4 /\ Len(solutions) = 3

\* C3: for 2k+1 distinct people (k >= 1) the Enumerator returns exactly
\* (2k+1) * (2k-1)!! solutions, each leaves out exactly one person, and each
\* person is the one left out in exactly (2k-1)!! of them.
C3_OddCount ==
    (pc = "done" /\ Len(people) >= 3 /\ Len(people) % 2 = 1) =>
        /\ Len(solutions) = Len(people) * DoubleFactorial(Len(people) - 2)
        /\ \A k \in DOMAIN solutions : Len(solutions[k][2]) = 1
        /\ \A p \in Range(people) :
               Cardinality({k \in DOMAIN solutions : solutions[k][2] = <<p>>})
                   = DoubleFactorial(Len(people) - 2)

C3_Witness ==
    pc = "done" /\ Len(people) = 5 /\ Len(solutions) = 15

(***************************************************************************)
(* Properties of the History Index.                                        *)
(***************************************************************************)
\* week w's record lists a 2-element entry with members a and b, in either
\* order, under one of the three field names
WeekListsPair(d, w, a, b) ==
    \E k \in DOMAIN PairingItems(d) :
        /\ PairingItems(d)[k][1] = w
        /\ \E f \in PairFields \cap DOMAIN PairingItems(d)[k][2] :
               \E e \in Range(PairingItems(d)[k][2][f]) :
                   Len(e) = 2 /\ (e = <<a, b>> \/ e = <<b, a>>)

\* C10: the index lists week w under the unordered pair {a,b} exactly when
\* the record of week w holds a 2-element entry with members a and b, in
\* either order, under 'pairs', 'manual_pairs' or 'auto_pairs'; entries of
\* another length and weeks without these fields add nothing, and a history
\* that is empty or absent gives an empty index.
C10_HistoryIndex ==
    pc = "done" =>
        /\ \A a, b \in 1..3, w \in IndexWeeks :
               a <= b =>
                   ((<<a, b>> \in DOMAIN historical_pairs
                       /\ w \in Range(historical_pairs[<<a, b>>]))
                    <=> WeekListsPair(data, w, a, b))
        /\ \A key \in DOMAIN historical_pairs :
               /\ Len(key) = 2 /\ key[1] <= key[2]
               /\ Range(historical_pairs[key]) \subseteq IndexWeeks
               /\ historical_pairs[key] # <<>>
        /\ PairingItems(data) = <<>> => DOMAIN historical_pairs = {}

C10_Witness ==
    /\ pc = "done"
    /\ <<1, 2>> \in DOMAIN historical_pairs
    /\ <<1, 3>> \in DOMAIN historical_pairs
    /\ historical_pairs[<<1, 2>>] = <<<<2025, 2>>, <<2025, 2>>, <<2025, 1>>>>
    /\ historical_pairs[<<1, 3>>] = <<<<2025, 2>>>>

(***************************************************************************)
(* Properties of the Scorer.                                               *)
(***************************************************************************)
\* the weeks of the history whose record lists the pair, in either order
WeeksListing(d, pair) ==
    {w \in ScoreWeeks : WeekListsPair(d, w, pair[1], pair[2])}

\* the latest of a non-empty set of weeks: the later year, then the later
\* week number
LatestWeek(ws) == CHOOSE w \in ws : \A v \in ws : v = w \/ WeekLess(v, w)

\* the breakdown b with n added to the counter named field
Bumped(b, field) == [b EXCEPT ![field] = @ + 1]

\* C6: with the default weights, scoring one pair adds +10 and counts a
\* first-time meeting if no week of the history lists the pair; otherwise,
\* with weeksAgo the target's week number minus that of the latest week
\* listing the pair, it adds -5 and counts a recent repeat if weeksAgo <= 2,
\* adds -1 and counts an old repeat if 3 <= weeksAgo <= 4, and changes
\* nothing if weeksAgo > 4.
C6_PairScoring ==
    [][(pc = "score_pairs" /\ pc' = "score_pairs" /\ idx' = idx + 1
            /\ weights = DefaultWeights) =>
        LET pair == pairs[idx + 1]
            listed == WeeksListing(data, pair)
            weeksAgo == target_week[2] - LatestWeek(listed)[2]
        IN  IF listed = {} THEN
                /\ score' = FloatAdd(score, FloatOfInt(10))
                /\ breakdown' = Bumped(breakdown, "first_time_meetings")
            ELSE IF weeksAgo <= 2 THEN
                /\ score' = FloatAdd(score, FloatOfInt(-5))
                /\ breakdown' = Bumped(breakdown, "recent_pairings")
            ELSE IF 3 <= weeksAgo /\ weeksAgo <= 4 THEN
                /\ score' = FloatAdd(score, FloatOfInt(-1))
                /\ breakdown' = Bumped(breakdown, "old_pairings")
            ELSE
                /\ score' = score
                /\ breakdown' = breakdown]_vars

\* a call with the default weights that has scored a first-time pair and a
\* pair last seen 3 or 4 weeks before the target
C6_Witness ==
    /\ pc = "done"
    /\ weights = DefaultWeights
    /\ ~ret.raised
    /\ Len(pairs) = 2
    /\ ret.breakdown.first_time_meetings = 1
    /\ ret.breakdown.old_pairings = 1
    /\ ret.score = FloatOfInt(9)

\* C7 (as claimed): with an empty roster-stats map a call with a complete
\* dict of weights returns a score and a breakdown, whatever the left-out
\* list: it never ends in an error.
C7_EmptyRosterReturns ==
    (pc \in {"score_pairs", "score_return", "raised", "done"}
        /\ DOMAIN data["people"] = {}
        /\ DOMAIN DefaultWeights \subseteq DOMAIN weights) => pc # "raised"

\* the times_left_out the Scorer reads for a person: the roster's counter,
\* 0 for a record without one or a person without a record
CountOf(d, person) ==
    IF person \in DOMAIN d["people"] THEN TimesLeftOut(d["people"][person]) ELSE 0

\* the total of times_left_out over all registered people
RosterTotal(d) == SumLeftOut(d["people"], DOMAIN d["people"])

\* acc and then, added one after the other in floating point, the shares
\* (average - count) * bonus of the left-out people from position k on, the
\* average being the float total / n
RECURSIVE FairnessSum(_, _, _, _, _)
FairnessSum(acc, d, lo, k, w) ==
    IF k > Len(lo) THEN acc
    ELSE LET average == FloatDiv(RosterTotal(d), Cardinality(DOMAIN d["people"]))
             share == FloatMul(FloatSub(average, FloatOfInt(CountOf(d, lo[k]))),
                               FloatOfInt(w["fairness_bonus"]))
         IN  FairnessSum(FloatAdd(acc, share), d, lo, k + 1, w)

\* the sum over the left-out list, from position k on, of
\* (total - n * count) * bonus: n times the exact fairness contribution
RECURSIVE FairnessNumerator(_, _, _, _)
FairnessNumerator(d, lo, k, w) ==
    IF k > Len(lo) THEN 0
    ELSE (RosterTotal(d) - Cardinality(DOMAIN d["people"]) * CountOf(d, lo[k]))
             * w["fairness_bonus"]
         + FairnessNumerator(d, lo, k + 1, w)

\* Scenario E: default weights, five registered people with total 4, one
\* person left out whose count is 2
ScenarioE ==
    /\ weights = DefaultWeights
    /\ Cardinality(DOMAIN data["people"]) = 5
    /\ RosterTotal(data) = 4
    /\ Len(left_out) = 1
    /\ CountOf(data, left_out[1]) = 2

\* the float -3.5999999999999996: the float nearest to -18/5 is -3.6, its
\* neighbour towards 0 is 2^-51 above it
ScenarioEValue ==
    FloatAdd(FloatDiv(-18, 5), [neg |-> FALSE, mant |-> <<1>>, exp |-> -51])

\* C8 (as claimed): the fairness total of a completed call is the value of
\* the sum over the left-out people of (average - theirCount) * bonus, that
\* is the float nearest to it; Scenario E contributes -3.6 = (4 - 5*2)*3/5.
C8_ExactFairness ==
    (pc \in {"score_return", "done"} /\ left_out # <<>>) =>
        /\ breakdown.fairness_score =
               FloatDiv(FairnessNumerator(data, left_out, 1, weights),
                        Cardinality(DOMAIN data["people"]))
        /\ ScenarioE => breakdown.fairness_score = FloatDiv(-18, 5)

\* C8 (amended): whenever the fairness block runs to its end it adds, for
\* every left-out person in turn, (average - theirCount) * fairness_bonus
\* to the score and to the breakdown's fairness_score, each operation
\* rounded to a float: the average is the total of times_left_out over all
\* registered people, active or not, divided by their number, theirCount
\* the person's times_left_out (0 where the roster holds none); with nobody
\* left out nothing is added.  Scenario E contributes -3.5999999999999996,
\* the float next to -3.6.  (The block does not run to its end for a
\* left-out person and an empty roster, where no average exists: see C7.)
C8_Fairness ==
    [][(pc = "score_pairs" /\ pc' = "score_return") =>
        /\ score' = FairnessSum(score, data, left_out, 1, weights)
        /\ breakdown' = [breakdown EXCEPT
                            !.fairness_score = FairnessSum(@, data, left_out, 1, weights)]
        /\ left_out = <<>> => score' = score /\ breakdown' = breakdown
        /\ ScenarioE =>
               /\ breakdown'.fairness_score = ScenarioEValue
               /\ score' = FloatAdd(score, ScenarioEValue)]_vars

\* the call of Scenario E has returned: five people, total 4, the person
\* with count 2 left out, default weights, no pairs
C8_Witness ==
    /\ pc = "done"
    /\ ScenarioE
    /\ pairs = <<>>
    /\ left_out = <<3>>
    /\ ~ret.raised
    /\ ret.score = ScenarioEValue
    /\ ret.breakdown.fairness_score = ScenarioEValue
    /\ FloatLess(FloatDiv(-18, 5), ret.score)

(***************************************************************************)
(* Properties of the Solution Ranker.                                      *)
(***************************************************************************)
\* the active people nobody paired by hand
Remaining == Range(active_people) \ ManuallyPaired(manual_pairs)

\* C4: in every returned solution the manual pairs are in the pair list,
\* nobody of a manual pair is in an automatically generated pair (the pairs
\* behind the manual ones) or in the left-out list, and every active person
\* outside the manual pairs is in exactly one automatic pair or the
\* left-out list.
C4_ManualPairs ==
    pc = "done" =>
        \A k \in DOMAIN ret :
            LET all_pairs == ret[k][2]
                auto_pairs == SubSeq(all_pairs, Len(manual_pairs) + 1, Len(all_pairs))
                members == Concat(auto_pairs) \o ret[k][3]
            IN  /\ Len(all_pairs) >= Len(manual_pairs)
                /\ SubSeq(all_pairs, 1, Len(manual_pairs)) = manual_pairs
                /\ Range(members) \cap ManuallyPaired(manual_pairs) = {}
                /\ \A p \in Remaining : Count(members, p) = 1

\* Scenario F: one manual pair, three people left, three solutions returned
C4_Witness ==
    /\ pc = "done"
    /\ Len(manual_pairs) = 1
    /\ Cardinality(Remaining) = 3
    /\ Len(ret) = 3
    /\ \A k \in DOMAIN ret : Len(ret[k][2]) = 2 /\ Len(ret[k][3]) = 1

\* C5: with at least two people to pair automatically, the call scores every
\* enumerated solution and returns min(top_n, number of enumerated
\* solutions) of the scored candidates, best score first, and every
\* candidate it does not return scores no higher than the lowest returned
\* score.
C5_TopN ==
    [][(pc = "rank_score" /\ pc' = "done") =>
        /\ Cardinality(Remaining) >= 2
        /\ Len(scored_solutions) = Len(all_solutions)
        /\ \A k \in DOMAIN all_solutions :
               /\ scored_solutions[k][2] = manual_pairs \o all_solutions[k][1]
               /\ scored_solutions[k][3] = all_solutions[k][2]
        /\ Len(ret') = Min(top_n, Len(all_solutions))
        /\ \A k \in 1..(Len(ret') - 1) : ~FloatLess(ret'[k][1], ret'[k + 1][1])
        /\ \A e \in Range(ret') : Count(ret', e) <= Count(scored_solutions, e)
        /\ \A c \in Range(scored_solutions) :
               Count(ret', c) < Count(scored_solutions, c) =>
                   (ret' # <<>> => ~FloatLess(ret'[Len(ret')][1], c[1]))]_vars

\* fifteen candidates of different scores, the best three returned
C5_Witness ==
    /\ pc = "done"
    /\ Len(all_solutions) = 15
    /\ top_n = 3
    /\ Len(ret) = 3
    /\ FloatLess(ret[3][1], ret[1][1])
    /\ \E k \in DOMAIN scored_solutions : FloatLess(scored_solutions[k][1], ret[3][1])

\* C9: with exactly one active person left after the manual pairs the call
\* returns one solution: score 0, the manual pairs, that person left out;
\* with nobody left it returns one solution: score 0, the manual pairs,
\* nobody left out.  Neither case calls the Enumerator or the Scorer.
C9_Degenerate ==
    (pc = "done" /\ Cardinality(Remaining) < 2) =>
        /\ Len(ret) = 1
        /\ ret[1][1] = FloatOfInt(0)
        /\ ret[1][2] = manual_pairs
        /\ Cardinality(Remaining) = 1 =>
               Len(ret[1][3]) = 1 /\ ret[1][3][1] \in Remaining
        /\ Cardinality(Remaining) = 0 => ret[1][3] = <<>>
        /\ calls = [enumerator |-> 0, scorer |-> 0]

\* two manual pairs among five active people: one person is left
C9_Witness ==
    /\ pc = "done"
    /\ Len(manual_pairs) = 2
    /\ Len(active_people) = 5
    /\ Cardinality(Remaining) = 1
    /\ Len(ret) = 1

====
